---- MODULE Spec2Model ----
(***************************************************************************)
(* thetagang: the portfolio cache, the write decision and one management   *)
(* cycle of PortfolioManager (src/thetagang/portfolio_manager.py), driven  *)
(* by start_schwab / start_ibkr (src/thetagang/thetagang.py).              *)
(*                                                                         *)
(* Units: wall-clock time in seconds; account amounts and market values in *)
(* dollars; stock prices in cents; strikes in tenths of a dollar (the      *)
(* exponent Decimal.quantize(Decimal("0.5")) rounds to); products of a     *)
(* price and a factor in 1e-4 dollars.                                     *)
(*                                                                         *)
(* The broker adapters (src/thetagang/brokers/schwab_broker_py.py and      *)
(* src/thetagang/brokers/ibkr.py) are driven on their own by SpecAdapter,  *)
(* one call of the BaseBroker interface per step.  SpecConvert applies     *)
(* SchwabBroker._convert_to_schwab_order to one Contract.  SpecReaders     *)
(* runs two coroutines against the cache of one PortfolioManager, each     *)
(* suspended at its await of the adapter.  SpecStart is one run of         *)
(* start_schwab: initialize, one cycle of manage(), the except and finally *)
(* blocks.                                                                 *)
(***************************************************************************)
EXTENDS Integers, Sequences, FiniteSets, TLC

\* ------------------------------------------------------------------ bounds
\* The clock stops advancing at MaxTime (seconds).
MaxTime == 60

\* Client sessions one adapter object constructs.
MaxSessions == 3

\* Order ids the backend hands out.
MaxOrderId == 2

\* The largest long or short quantity the backend reports for a position.
MaxQuantity == 2

\* ------------------------------------------------------- program constants
\* pos.longQuantity / pos.shortQuantity is None
NoQuantity == -1
\* order_id = "unknown"
Unknown == 0
\* self._cache_ttl = timedelta(seconds=30)
cache_ttl == 30
\* self._cache_time = None
NoTime == -1
\* Contract.multiplier / Decimal(100) in bp_needed
multiplier == 100
\* contracts_needed = 1
contracts_needed == 1
\* limit_price=None (Order.limit_price default)
NoPrice == -1

\* One step of the wall clock between two awaits (seconds).
TickStep == 15

\* ----------------------------------------------------------- configuration
\* config["symbols"]: the configured underlyings, in dict order.
symbols_config == <<"AAA", "BBB">>
Symbols == {symbols_config[i] : i \in 1..Len(symbols_config)}
\* symbol_config["weight"], in percent of net liquidation.
weight(symbol) == 10
\* symbol_config["delta"], in hundredths (0.30 and 0.25); for these values
\* str(1 - delta) is the exact decimal 0.7 / 0.75.
delta(symbol) == IF symbol = "AAA" THEN 30 ELSE 25

\* ------------------------------------------------------------ environment
\* Stock prices a quote can carry, in cents; 0 stands for "no price"
\* (get_stock_price returned None, or a zero price: both are falsy).
Prices == {0, 15000, 15100}
\* get_market_data(symbols)[symbol]: None (null = TRUE) when the quote failed,
\* else a record of which the decision reads "last" and "bid" (0: None/zero).
NullQuote == [null |-> TRUE, last |-> 0, bid |-> 0]
Quotes == {NullQuote} \cup [null : {FALSE}, last : Prices, bid : Prices]
\* Market values of a held position, in dollars; 0 = no position held.
MarketValues == {0, 10000}
\* Account snapshots the backend can report.
AccountKeys == {"buying_power", "cash", "net_liquidation"}
MkAccount(bp) ==
    [keys |-> AccountKeys, buying_power |-> bp, cash |-> bp,
     net_liquidation |-> 100000]
\* An account summary that came without its NetLiquidation row.
WithoutNetLiquidation(account) ==
    [account EXCEPT !.keys = @ \ {"net_liquidation"}]
BrokerAccounts ==
    {MkAccount(1000), MkAccount(15000), WithoutNetLiquidation(MkAccount(15000))}
\* self._account_info_cache = {}
EmptyAccount ==
    [keys |-> {}, buying_power |-> 0, cash |-> 0, net_liquidation |-> 0]

\* Position(symbol, quantity, average_cost, market_value, unrealized_pnl):
\* the fields the decision engine reads.
Position(symbol, mv) == [symbol |-> symbol, market_value |-> mv]
\* The list an adapter returns for holdings mv: symbol -> market value.
PositionList(mv) ==
    LET F[i \in 0..Len(symbols_config)] ==
            IF i = 0 THEN <<>>
            ELSE IF mv[symbols_config[i]] = 0 THEN F[i - 1]
                 ELSE Append(F[i - 1],
                             Position(symbols_config[i], mv[symbols_config[i]]))
    IN F[Len(symbols_config)]
BrokerPositionLists == {PositionList(mv) : mv \in [Symbols -> MarketValues]}

VARIABLES
    now,                 \* datetime.now()
    cache_time,          \* PortfolioManager._cache_time (NoTime = None)
    positions_cache,     \* PortfolioManager._positions_cache
    account_info_cache,  \* PortfolioManager._account_info_cache
    pos_at,              \* when positions_cache was fetched (NoTime: never)
    acct_at,             \* when account_info_cache was fetched (NoTime: never)
    broker_positions,    \* what the backend holds
    broker_account,      \* what the backend reports for the account
    green,               \* config["write_when"]["puts"]["green"]
    last,                \* the most recent cache operation and its outcome
    prev,                \* the cache operation before it
    pc,                  \* position inside manage(); "idle" outside
    dry_run,             \* the dry_run argument of the running start_*()
    in_run,              \* TRUE while manage() runs on behalf of start_*()
    idx,                 \* index into symbols_config of the write loop
    buying_power,        \* check_and_write_puts: local buying_power
    net_liq,             \* calculate_target_positions: local net_liq
    seen,                \* per symbol: what the write decision observed
    orders,              \* orders handed to the adapter in this cycle
    result               \* how the last manage() ended

VARIABLES
    adapter,             \* the BaseBroker implementation: "schwab" or "ibkr"
    client,              \* SchwabBroker.client: 0 = None, else its session
    created,             \* AsyncSchwabClient objects constructed so far
    live,                \* client sessions constructed and not yet closed
    ib_connected,        \* IBKRBroker.ib.isConnected()
    connected,           \* a connect() returned true, no disconnect() since
    backend_orders,      \* the backend's orders: id -> none/open/filled/cancelled
    ad                   \* the most recent adapter call and its outcome

VARIABLES
    contract,            \* the Contract of the Order being converted
    option_symbol        \* the option symbol built from it (NoSymbol: not yet)

VARIABLES
    readers,             \* per coroutine: the cache read it is in, and where
    run                  \* start_schwab: where it is, what connect() did

convertVars == <<contract, option_symbol, readers, run>>
adapterVars == <<adapter, client, created, live, ib_connected, connected,
                 backend_orders, ad>>
cacheVars == <<cache_time, positions_cache, account_info_cache, pos_at, acct_at>>
envVars == <<broker_positions, broker_account, green, adapterVars, convertVars>>
cycleVars == <<pc, dry_run, in_run, idx, buying_power, net_liq, seen, orders, result>>
vars == <<now, cacheVars, envVars, last, prev, cycleVars>>
managerVars == <<now, cacheVars, broker_positions, broker_account, green,
                 last, prev, cycleVars, convertVars>>

\* ------------------------------------------------------------------ cache
NoOp == [op |-> "none", at |-> NoTime, fetched |-> 0, raised |-> FALSE,
         snapshot |-> NoTime]

\* The record of one cache operation: when it ran, how many adapter calls it
\* made, whether it raised, and the _cache_time it left behind.
OpRecord(op, fetched, raised) ==
    [op |-> op, at |-> now, fetched |-> fetched, raised |-> raised,
     snapshot |-> cache_time']

\* PortfolioManager._is_cache_valid
is_cache_valid ==
    IF cache_time = NoTime THEN FALSE ELSE now - cache_time < cache_ttl

\* get_positions with the force_refresh flag left out of the test.
positions_cache_hit_ignores_force(force_refresh) == is_cache_valid

\* get_positions: "if not force_refresh and self._is_cache_valid(): return"
positions_cache_hit(force_refresh) == ~force_refresh /\ is_cache_valid

\* PortfolioManager.get_account_info; ok: the adapter call succeeds.
get_account_info(ok) ==
    /\ prev' = last
    /\ IF is_cache_valid
       THEN /\ UNCHANGED cacheVars
            /\ last' = OpRecord("get_account_info", 0, FALSE)
       ELSE IF ok
       THEN /\ account_info_cache' = broker_account
            /\ cache_time' = now
            /\ acct_at' = now
            /\ UNCHANGED <<positions_cache, pos_at>>
            /\ last' = OpRecord("get_account_info", 1, FALSE)
       ELSE /\ UNCHANGED cacheVars
            /\ last' = OpRecord("get_account_info", 1, TRUE)

\* PortfolioManager.get_positions(force_refresh)
get_positions(force_refresh, ok) ==
    LET op == IF force_refresh THEN "get_positions_forced" ELSE "get_positions"
    IN /\ prev' = last
       /\ IF positions_cache_hit(force_refresh)
          THEN /\ UNCHANGED cacheVars
               /\ last' = OpRecord(op, 0, FALSE)
          ELSE IF ok
          THEN /\ positions_cache' = broker_positions
               /\ cache_time' = now
               /\ pos_at' = now
               /\ UNCHANGED <<account_info_cache, acct_at>>
               /\ last' = OpRecord(op, 1, FALSE)
          ELSE /\ UNCHANGED cacheVars
               /\ last' = OpRecord(op, 1, TRUE)

\* _invalidate_cache that empties the two caches and keeps _cache_time.
invalidate_cache_keeps_time ==
    /\ positions_cache' = <<>>
    /\ account_info_cache' = EmptyAccount
    /\ pos_at' = NoTime
    /\ acct_at' = NoTime
    /\ UNCHANGED cache_time
    /\ prev' = last
    /\ last' = OpRecord("invalidate_cache", 0, FALSE)

\* PortfolioManager._invalidate_cache
invalidate_cache ==
    /\ cache_time' = NoTime
    /\ positions_cache' = <<>>
    /\ account_info_cache' = EmptyAccount
    /\ pos_at' = NoTime
    /\ acct_at' = NoTime
    /\ prev' = last
    /\ last' = OpRecord("invalidate_cache", 0, FALSE)

\* -------------------------------------------------------- decision engine
\* get_position_by_symbol: the first cached position with that symbol, and
\* _should_write_puts: "current_position.market_value if current_position
\* else Decimal(0)".
current_value(positions, symbol) ==
    LET hits == {i \in 1..Len(positions) : positions[i].symbol = symbol}
    IN IF hits = {} THEN 0
       ELSE positions[CHOOSE i \in hits : \A j \in hits : i <= j].market_value

\* calculate_target_positions: target_value = net_liq * Decimal(str(weight)),
\* here times 100 (weight is in percent).
target_value(nl, symbol) == nl * weight(symbol)

\* _should_write_puts: "if current_value >= target_value: return False"
at_or_above_target(cur, nl, symbol) == cur * 100 >= target_value(nl, symbol)

\* _should_write_puts: bp_needed = stock_price * Decimal(100) * contracts_needed
\* (cents)
bp_needed(stock_price) == stock_price * multiplier * contracts_needed

\* The buying-power check on the price of one share instead of one contract.
insufficient_buying_power_per_share(stock_price, bp) ==
    stock_price * contracts_needed > bp * 100

\* _should_write_puts: "if bp_needed > buying_power: return False"
insufficient_buying_power(stock_price, bp) == bp_needed(stock_price) > bp * 100

\* Decimal.quantize(Decimal("0.5")): rounds to the exponent of 0.5, that is to
\* one decimal place, ROUND_HALF_EVEN.  x is in 1e-4 dollars, the result in
\* tenths of a dollar.
quantize(x) ==
    LET q == x \div 1000
        r == x % 1000
    IN IF r > 500 \/ (r = 500 /\ q % 2 = 1) THEN q + 1 ELSE q

\* stock_price * Decimal(str(1 - delta)), in 1e-4 dollars.
strike_exact(stock_price, symbol) == stock_price * (100 - delta(symbol))

\* _write_puts_for_symbol: the strike of the put, in tenths of a dollar.
strike(stock_price, symbol) == quantize(strike_exact(stock_price, symbol))

\* _write_puts_for_symbol: limit_price = stock_price * Decimal("0.01"),
\* in 1e-4 dollars.
limit_price(stock_price) == stock_price

\* The put written without its limit price (order_type and limit_price left
\* at other values than the code passes).
put_order_without_limit(symbol, stock_price, accepted) ==
    [symbol |-> symbol, action |-> "SELL", right |-> "PUT", quantity |-> 1,
     order_type |-> "LIMIT", limit_price |-> NoPrice,
     strike |-> quantize(stock_price * (100 - delta(symbol))),
     price |-> stock_price, accepted |-> accepted]

\* The Order that _write_puts_for_symbol hands to place_option_order, and
\* whether the backend accepted it; price keeps the quote the strike was
\* derived from.
put_order(symbol, stock_price, accepted) ==
    [symbol |-> symbol, action |-> "SELL", right |-> "PUT", quantity |-> 1,
     order_type |-> "LIMIT", limit_price |-> limit_price(stock_price),
     strike |-> strike(stock_price, symbol), price |-> stock_price,
     accepted |-> accepted]

\* get_stock_price with the test of the entry left out: a null entry is read
\* like a record.
get_stock_price_no_null_test(quote) ==
    IF quote.last # 0 THEN quote.last ELSE IF quote.null THEN 15000 ELSE quote.bid

\* get_stock_price: "if quote: return quote.get('last') or quote.get('bid')";
\* "return None" otherwise.
get_stock_price(quote) ==
    IF quote.null THEN 0
    ELSE IF quote.last # 0 THEN quote.last ELSE quote.bid

\* What the market-data entry of a lookup was: null, a record with neither
\* last nor bid, or a record with a price.
quote_kind(quote) ==
    IF quote.null THEN "null"
    ELSE IF quote.last = 0 /\ quote.bid = 0 THEN "unpriced" ELSE "priced"

\* _should_write_puts / _write_puts_for_symbol: "if not stock_price"
no_price(stock_price) == stock_price = 0

\* get_net_liquidation: account_info.get("net_liquidation", Decimal(0))
get_net_liquidation(account_info) ==
    IF "net_liquidation" \in account_info.keys
    THEN account_info.net_liquidation ELSE 0

\* _should_roll_position: "return False  # Placeholder"
should_roll_position(position) == FALSE

\* What the write decision has observed for one symbol in this pass.
NotSeen == [state |-> "pending", cur |-> -1, q1 |-> -1, q2 |-> -1,
            k1 |-> "none", k2 |-> "none"]

\* ---------------------------------------------------------- coroutines
\* The coroutines that read through the cache of one PortfolioManager.
Readers == {"r1", "r2"}

\* A coroutine that is in no cache read.
NoRead == [op |-> "none", at |-> "idle"]

\* start_schwab before its try block: nothing initialized, no error.
NoRun == [at |-> "new", connect |-> "none", error |-> FALSE]

\* ------------------------------------------------------- option symbols
\* Contract(symbol, strike, expiration, right): strike in cents, expiration
\* a calendar date.
Contract(symbol, strike_cents, expiration, right) ==
    [symbol |-> symbol, strike |-> strike_cents, expiration |-> expiration,
     right |-> right]

Date(year, month, day) == [year |-> year, month |-> month, day |-> day]

Strikes == {200, 201, 12820, 15000}
Expirations == {Date(2026, 1, 16), Date(2026, 12, 18),
                Date(2027, 1, 15), Date(2027, 12, 17)}
Rights == {"CALL", "PUT"}
Contracts == {Contract(s, k, e, r) :
                  s \in Symbols, k \in Strikes, e \in Expirations, r \in Rights}

\* Strikes of the model at which float(strike) * 1000, in IEEE-754 double
\* arithmetic, falls just below the exact product: 2.01 * 1000 is
\* 2009.9999999999998 and 128.2 * 1000 is 128199.99999999999.
ShortProducts == {201, 12820}

\* "strike_cents = int(float(order.contract.strike) * 1000)": the double
\* product truncated towards zero, in thousandths of a dollar.
strike_cents(contract_strike) ==
    IF contract_strike \in ShortProducts THEN contract_strike * 10 - 1
    ELSE contract_strike * 10

\* "exp_str = order.contract.expiration.strftime('%m%d%y')": the six digits
\* MMDDYY, read as a number.
exp_str(expiration) ==
    expiration.month * 10000 + expiration.day * 100 + (expiration.year % 100)

\* "right = order.contract.right[0]  # C or P"
right_letter(right) == IF right = "CALL" THEN "C" ELSE "P"

\* option_symbol = f"{symbol}_{exp_str}{right}{strike_str}", strike_str the
\* strike_cents padded to eight digits; the parts are kept apart (the date and
\* the letter have fixed widths).
option_symbol_of(c) ==
    [symbol |-> c.symbol, exp_str |-> exp_str(c.expiration),
     right |-> right_letter(c.right), strike_str |-> strike_cents(c.strike)]

NoSymbol == [symbol |-> "", exp_str |-> 0, right |-> "", strike_str |-> 0]

\* --------------------------------------------------------------- adapters
Adapters == {"schwab", "ibkr"}

\* The adapter holds a session: "if self.client" / "self.ib.isConnected()".
has_session == IF adapter = "schwab" THEN client # 0 ELSE ib_connected

\* Sessions that exist and have not been released.
live_sessions ==
    IF adapter = "schwab" THEN Cardinality(live)
    ELSE IF ib_connected THEN 1 ELSE 0

OrderIds == 1..MaxOrderId

\* The orders the backend holds as working.
open_orders == {id \in OrderIds : backend_orders[id] = "open"}

\* The order ids the backend has not handed out.
free_ids == {id \in OrderIds : backend_orders[id] = "none"}

NoCall == [op |-> "none", outcome |-> "none",
           was_connected |-> FALSE, had_session |-> FALSE,
           live_before |-> 0, open_before |-> {},
           arg |-> Unknown, ids |-> {}, sent |-> FALSE,
           parsable |-> {}, feed |-> <<>>, entries |-> <<>>,
           long |-> NoQuantity, short |-> NoQuantity, quantity |-> 0,
           action |-> "none", order_type |-> "none", limit_price |-> NoPrice,
           submitted_as |-> "none", instruction |-> "none",
           opened |-> {}, cancelled |-> {}]

\* The record of one adapter call: what was called, how it ended ("true",
\* "false", "returned", "NotConnected" or "raised"), and the state it was
\* called in.
Call(op, outcome) ==
    [NoCall EXCEPT !.op = op, !.outcome = outcome,
                   !.was_connected = connected,
                   !.had_session = has_session,
                   !.live_before = live_sessions,
                   !.open_before = open_orders]

\* What AsyncSchwabClient(...) and the verification of connect() can do.
ConnectSteps == {"client_fails", "numbers_fail", "account_missing", "verified"}

\* SchwabBroker.connect: "self.client = AsyncSchwabClient(...)" comes first
\* and is not undone; get_account_numbers raising, or the account hash not
\* among the accounts, returns False, and so does any exception.
schwab_connect(step) ==
    /\ step # "client_fails" => created < MaxSessions
    /\ IF step = "client_fails"
       THEN UNCHANGED <<client, created, live>>
       ELSE /\ created' = created + 1
            /\ client' = created + 1
            /\ live' = live \cup {created + 1}
    /\ connected' = (connected \/ step = "verified")
    /\ ad' = Call("connect", IF step = "verified" THEN "true" ELSE "false")

\* IBKRBroker.connect: "if self.ib.isConnected(): return True", else False.
ibkr_connect ==
    /\ connected' = (connected \/ ib_connected)
    /\ ad' = Call("connect", IF ib_connected THEN "true" ELSE "false")
    /\ UNCHANGED <<client, created, live>>

\* ------------------------------------------------------------------- Init
\* PortfolioManager.__init__: empty caches, no cache time.
\* No Order has been converted.
NothingConverted ==
    /\ contract = Contract("AAA", 15000, Date(2026, 1, 16), "PUT")
    /\ option_symbol = NoSymbol
    /\ readers = [r \in Readers |-> NoRead]
    /\ run = NoRun

\* SchwabBroker.__init__ ("self.client = None") and IBKRBroker.__init__: no
\* call made yet.
AdapterConstructed ==
    /\ client = 0
    /\ created = 0
    /\ live = {}
    /\ connected = FALSE
    /\ backend_orders = [id \in OrderIds |-> "none"]
    /\ ad = NoCall

\* PortfolioManager.__init__ with the Schwab adapter, before initialize().
Init ==
    /\ now = 0
    /\ cache_time = NoTime
    /\ positions_cache = <<>>
    /\ account_info_cache = EmptyAccount
    /\ pos_at = NoTime
    /\ acct_at = NoTime
    /\ broker_positions \in BrokerPositionLists
    /\ broker_account \in BrokerAccounts
    /\ green \in BOOLEAN
    /\ adapter = "schwab"
    /\ ib_connected = FALSE
    /\ AdapterConstructed
    /\ NothingConverted
    /\ last = NoOp
    /\ prev = NoOp
    /\ pc = "idle"
    /\ dry_run = FALSE
    /\ in_run = FALSE
    /\ idx = 1
    /\ buying_power = -1
    /\ net_liq = 0
    /\ seen = [s \in Symbols |-> NotSeen]
    /\ orders = <<>>
    /\ result = "none"

\* ---------------------------------------------------------------- actions
\* Wall-clock time passes (between calls, or at an await inside manage()).
Tick ==
    /\ now + TickStep <= MaxTime
    /\ now' = now + TickStep
    /\ UNCHANGED <<cacheVars, envVars, last, prev, cycleVars>>

\* Outside a cycle the locals of manage() are gone: what the last cycle
\* left behind is dropped when the caller makes its next call.
NoCycle ==
    /\ pc' = "idle"
    /\ dry_run' = FALSE
    /\ in_run' = FALSE
    /\ idx' = 1
    /\ buying_power' = -1
    /\ net_liq' = 0
    /\ seen' = [s \in Symbols |-> NotSeen]
    /\ orders' = <<>>
    /\ result' = "none"

\* A caller reads the account through the cache, outside a cycle.
CallGetAccountInfo ==
    /\ pc = "idle"
    /\ \E ok \in BOOLEAN : get_account_info(ok)
    /\ NoCycle
    /\ UNCHANGED <<now, envVars>>

\* A caller reads the positions through the cache, outside a cycle.
CallGetPositions ==
    /\ pc = "idle"
    /\ \E force_refresh \in BOOLEAN, ok \in BOOLEAN :
           get_positions(force_refresh, ok)
    /\ NoCycle
    /\ UNCHANGED <<now, envVars>>

\* _invalidate_cache is called, outside a cycle.
CallInvalidateCache ==
    /\ pc = "idle"
    /\ invalidate_cache
    /\ NoCycle
    /\ UNCHANGED <<now, envVars>>

\* A caller asks for the targets, outside a cycle: calculate_target_positions
\* reads the account through get_net_liquidation and returns a target_value
\* per symbol.
CallCalculateTargetPositions ==
    /\ pc = "idle"
    /\ \E ok \in BOOLEAN : get_account_info(ok)
    /\ pc' = "idle"
    /\ dry_run' = FALSE
    /\ in_run' = FALSE
    /\ idx' = 1
    /\ buying_power' = -1
    /\ seen' = [s \in Symbols |-> NotSeen]
    /\ orders' = <<>>
    /\ IF last'.raised
       THEN net_liq' = 0 /\ result' = "none"
       ELSE /\ net_liq' = get_net_liquidation(account_info_cache')
            /\ result' = "targets"
    /\ UNCHANGED <<now, envVars>>

\* manage() going straight to the write loop, without the reads that come
\* before it.
BeginCycle_at_write_loop ==
    /\ pc' = "should_write"
    /\ idx' = 1
    /\ buying_power' = -1
    /\ net_liq' = 0
    /\ seen' = [s \in Symbols |-> NotSeen]
    /\ orders' = <<>>
    /\ result' = "running"

\* The locals of a cycle that begins.
BeginCycle ==
    /\ pc' = "display_account"
    /\ idx' = 1
    /\ buying_power' = -1
    /\ net_liq' = 0
    /\ seen' = [s \in Symbols |-> NotSeen]
    /\ orders' = <<>>
    /\ result' = "running"

\* manage() is called on the existing PortfolioManager, whatever its cache
\* holds; last and prev record the cache operations from here on.
manage ==
    /\ pc = "idle"
    /\ BeginCycle
    /\ dry_run' = FALSE
    /\ in_run' = FALSE
    /\ last' = NoOp
    /\ prev' = NoOp
    /\ UNCHANGED <<now, cacheVars, envVars>>

\* start_schwab / start_ibkr(config, dry_run): a new PortfolioManager is
\* built and initialized, then manage() runs; dry_run is only logged.
start(dr) ==
    /\ pc = "idle"
    /\ BeginCycle
    /\ dry_run' = dr
    /\ in_run' = TRUE
    /\ cache_time' = NoTime
    /\ positions_cache' = <<>>
    /\ account_info_cache' = EmptyAccount
    /\ pos_at' = NoTime
    /\ acct_at' = NoTime
    /\ last' = NoOp
    /\ prev' = NoOp
    /\ UNCHANGED <<now, envVars>>

\* manage() with the exception logged and swallowed inside the failing pass:
\* the cycle goes on with the roll pass.
Abort_swallowed ==
    /\ pc' = "roll"
    /\ result' = "running"

\* manage(): "except Exception: ... raise" -- the cycle ends, nothing more
\* of it runs.
Abort ==
    /\ pc' = "idle"
    /\ result' = "raised"

\* The write loop moves to the symbol after idx, or to the roll pass.
NextSymbol ==
    IF idx < Len(symbols_config)
    THEN idx' = idx + 1 /\ pc' = "should_write"
    ELSE idx' = idx /\ pc' = "roll"

\* _display_account_summary: account_info = await self.get_account_info()
display_account ==
    /\ pc = "display_account"
    /\ \E ok \in BOOLEAN : get_account_info(ok)
    /\ IF last'.raised
       THEN Abort
       ELSE pc' = "display_positions" /\ UNCHANGED result
    /\ UNCHANGED <<now, envVars, dry_run, in_run, idx, buying_power, net_liq,
                   seen, orders>>

\* _display_account_summary: positions = await self.get_positions(), then the
\* log lines index account_info['net_liquidation'], ['buying_power'], ['cash'].
display_positions ==
    /\ pc = "display_positions"
    /\ \E ok \in BOOLEAN : get_positions(FALSE, ok)
    /\ IF last'.raised \/ ~(AccountKeys \subseteq account_info_cache.keys)
       THEN Abort
       ELSE pc' = "write_account" /\ UNCHANGED result
    /\ UNCHANGED <<now, envVars, dry_run, in_run, idx, buying_power, net_liq,
                   seen, orders>>

\* check_and_write_puts: account_info = await self.get_account_info(); the
\* value that "buying_power = account_info['buying_power']" will read.
write_account ==
    /\ pc = "write_account"
    /\ \E ok \in BOOLEAN : get_account_info(ok)
    /\ IF last'.raised
       THEN Abort /\ UNCHANGED buying_power
       ELSE /\ pc' = "write_positions"
            /\ buying_power' =
                   IF "buying_power" \in account_info_cache'.keys
                   THEN account_info_cache'.buying_power ELSE -1
            /\ UNCHANGED result
    /\ UNCHANGED <<now, envVars, dry_run, in_run, idx, net_liq, seen, orders>>

\* check_and_write_puts: positions = await self.get_positions()
write_positions ==
    /\ pc = "write_positions"
    /\ \E ok \in BOOLEAN : get_positions(FALSE, ok)
    /\ IF last'.raised
       THEN Abort
       ELSE pc' = "write_targets" /\ UNCHANGED result
    /\ UNCHANGED <<now, envVars, dry_run, in_run, idx, buying_power, net_liq,
                   seen, orders>>

\* check_and_write_puts: targets = await self.calculate_target_positions()
\* (get_net_liquidation reads the account again), then
\* buying_power = account_info["buying_power"] (KeyError when absent).
calculate_target_positions ==
    /\ pc = "write_targets"
    /\ \E ok \in BOOLEAN : get_account_info(ok)
    /\ IF last'.raised \/ buying_power = -1
       THEN Abort /\ UNCHANGED net_liq
       ELSE /\ pc' = "should_write"
            /\ net_liq' = get_net_liquidation(account_info_cache')
            /\ UNCHANGED result
    /\ UNCHANGED <<now, envVars, dry_run, in_run, idx, buying_power, seen,
                   orders>>

\* _should_write_puts, first half: the green switch, then
\* get_position_by_symbol (a cache read) and the comparison with the target.
should_write_puts_allocation ==
    LET symbol == symbols_config[idx] IN
    /\ pc = "should_write"
    /\ IF ~green
       THEN /\ seen' = [seen EXCEPT ![symbol].state = "evaluated"]
            /\ NextSymbol
            /\ UNCHANGED <<cacheVars, last, prev, result>>
       ELSE /\ \E ok \in BOOLEAN : get_positions(FALSE, ok)
            /\ IF last'.raised
               THEN Abort /\ UNCHANGED <<seen, idx>>
               ELSE LET cur == current_value(positions_cache', symbol) IN
                    /\ UNCHANGED result
                    /\ IF at_or_above_target(cur, net_liq, symbol)
                       THEN /\ seen' = [seen EXCEPT ![symbol].state = "evaluated",
                                                    ![symbol].cur = cur]
                            /\ NextSymbol
                       ELSE /\ seen' = [seen EXCEPT ![symbol].cur = cur]
                            /\ pc' = "should_write_price"
                            /\ UNCHANGED idx
    /\ UNCHANGED <<now, envVars, dry_run, in_run, buying_power, net_liq, orders>>

\* _should_write_puts, second half: stock_price = get_stock_price(symbol),
\* "if not stock_price: return False", then the buying-power check.
should_write_puts_price ==
    LET symbol == symbols_config[idx] IN
    /\ pc = "should_write_price"
    /\ \E quote \in Quotes :
         LET stock_price == get_stock_price(quote) IN
         IF no_price(stock_price)
                \/ insufficient_buying_power(stock_price, buying_power)
         THEN /\ seen' = [seen EXCEPT ![symbol].state = "evaluated",
                                      ![symbol].q1 = stock_price,
                                      ![symbol].k1 = quote_kind(quote)]
              /\ NextSymbol
         ELSE /\ seen' = [seen EXCEPT ![symbol].q1 = stock_price,
                                      ![symbol].k1 = quote_kind(quote)]
              /\ pc' = "write_puts"
              /\ UNCHANGED idx
    /\ UNCHANGED <<now, cacheVars, envVars, last, prev, dry_run, in_run,
                   buying_power, net_liq, orders, result>>

\* The handler of lines 608-611 re-raising what place_option_order raised.
submission_outcome_reraised(raised) ==
    IF raised
    THEN Abort /\ UNCHANGED idx
    ELSE NextSymbol /\ UNCHANGED result

\* _write_puts_for_symbol, lines 595-611: "try: place_option_order(...)
\* except Exception: logger.error(...)": the method returns normally whether
\* or not the submission raised, and the loop goes on.
submission_outcome(raised) ==
    NextSymbol /\ UNCHANGED result

\* check_and_write_puts with the value of each emitted contract taken off
\* the buying power that the later symbols are checked against.
buying_power_of_pass_less_orders(bp, stock_price, emitted) ==
    IF emitted THEN bp - (bp_needed(stock_price) \div 100) ELSE bp

\* check_and_write_puts, lines 496-505: the local buying_power is read once
\* before the loop and handed to every _should_write_puts and
\* _write_puts_for_symbol call; nothing in the loop assigns it, whatever was
\* emitted.
buying_power_of_pass(bp, stock_price, emitted) == bp

\* _write_puts_for_symbol: a second get_stock_price ("if not stock_price:
\* return"), then place_option_order; an exception of the adapter is caught
\* and logged.
write_puts_for_symbol ==
    LET symbol == symbols_config[idx] IN
    /\ pc = "write_puts"
    /\ \E quote \in Quotes, accepted \in BOOLEAN :
         LET stock_price == get_stock_price(quote) IN
         /\ seen' = [seen EXCEPT ![symbol].state = "evaluated",
                                 ![symbol].q2 = stock_price,
                                 ![symbol].k2 = quote_kind(quote)]
         /\ orders' = IF no_price(stock_price) THEN orders
                      ELSE Append(orders, put_order(symbol, stock_price, accepted))
         /\ submission_outcome(~no_price(stock_price) /\ ~accepted)
         /\ buying_power' =
                buying_power_of_pass(buying_power, stock_price,
                                     ~no_price(stock_price) /\ accepted)
    /\ UNCHANGED <<now, cacheVars, envVars, last, prev, dry_run, in_run,
                   net_liq>>

\* check_and_roll_positions: get_option_positions reads the cache; no held
\* position is rolled (_should_roll_position returns False).  manage() is
\* complete.
check_and_roll_positions ==
    /\ pc = "roll"
    /\ \E ok \in BOOLEAN : get_positions(FALSE, ok)
    /\ IF last'.raised
       THEN Abort
       ELSE /\ \A i \in 1..Len(positions_cache') :
                  ~should_roll_position(positions_cache'[i])
            /\ pc' = "idle"
            /\ result' = "complete"
    /\ UNCHANGED <<now, envVars, dry_run, in_run, idx, buying_power, net_liq,
                   seen, orders>>

Next ==
    \/ Tick
    \/ CallGetAccountInfo
    \/ CallGetPositions
    \/ CallInvalidateCache
    \/ CallCalculateTargetPositions
    \/ manage
    \/ \E dr \in BOOLEAN : start(dr)
    \/ display_account
    \/ display_positions
    \/ write_account
    \/ write_positions
    \/ calculate_target_positions
    \/ should_write_puts_allocation
    \/ should_write_puts_price
    \/ write_puts_for_symbol
    \/ check_and_roll_positions

Spec == Init /\ [][Next]_vars

\* ------------------------------------------------------- adapter actions
\* BaseBroker.connect
broker_connect ==
    /\ IF adapter = "schwab"
       THEN \E step \in ConnectSteps : schwab_connect(step)
       ELSE ibkr_connect
    /\ UNCHANGED <<adapter, ib_connected, backend_orders, managerVars>>

\* SchwabBroker.disconnect without "self.client = None".
schwab_disconnect_keeps_client ==
    /\ live' = live \ {client}
    /\ UNCHANGED <<client, created, ib_connected>>

\* SchwabBroker.disconnect: "if self.client: await self.client.close();
\* self.client = None".
schwab_disconnect ==
    /\ IF client # 0
       THEN live' = live \ {client} /\ client' = 0
       ELSE UNCHANGED <<client, live>>
    /\ UNCHANGED <<created, ib_connected>>

\* IBKRBroker.disconnect: "if self.ib.isConnected(): self.ib.disconnect()".
ibkr_disconnect ==
    /\ ib_connected' = FALSE
    /\ UNCHANGED <<client, created, live>>

\* BaseBroker.disconnect
broker_disconnect ==
    /\ IF adapter = "schwab" THEN schwab_disconnect ELSE ibkr_disconnect
    /\ connected' = FALSE
    /\ ad' = Call("disconnect", "returned")
    /\ UNCHANGED <<adapter, backend_orders, managerVars>>

\* The outcomes of a call that reads from the backend.  SchwabBroker: "if not
\* self.client: raise RuntimeError('Not connected to Schwab')", then the
\* backend answers or raises.  IBKRBroker has no such test: the call goes to
\* self.ib, which on a closed connection raises or answers from what it holds.
read_outcomes ==
    IF adapter = "schwab"
    THEN IF client = 0 THEN {"NotConnected"} ELSE {"returned", "raised"}
    ELSE IF ib_connected THEN {"returned", "raised"}
         ELSE {"returned", "NotConnected"}

\* BaseBroker.get_account_info
broker_get_account_info ==
    /\ \E outcome \in read_outcomes : ad' = Call("get_account_info", outcome)
    /\ UNCHANGED <<adapter, client, created, live, ib_connected, connected,
                   backend_orders, managerVars>>

\* What the backend reports as longQuantity or shortQuantity of a position:
\* a non-negative quantity, or nothing.
ReportedQuantities == {NoQuantity} \cup 0..MaxQuantity

\* "int(pos.longQuantity or 0)": None and 0 give 0.
or_zero(quantity) == IF quantity = NoQuantity THEN 0 ELSE quantity

\* get_positions with the short quantity left out of the net.
net_qty_long_only(long, short) == or_zero(long)

\* SchwabBroker.get_positions: "net_qty = long_qty - short_qty"; IBKRBroker
\* takes item.position, which the backend reports signed.
net_qty(long, short) == or_zero(long) - or_zero(short)

\* BaseBroker.get_positions; one position of the answer is followed.
\* IBKRBroker reads self.ib.portfolio(), which is
\* local.
broker_get_positions ==
    /\ \E outcome \in IF adapter = "schwab" THEN read_outcomes ELSE {"returned"} :
           IF outcome = "returned"
           THEN \E long \in ReportedQuantities, short \in ReportedQuantities :
                    ad' = [Call("get_positions", outcome) EXCEPT
                              !.long = long, !.short = short,
                              !.quantity = net_qty(long, short)]
           ELSE ad' = Call("get_positions", outcome)
    /\ UNCHANGED <<adapter, client, created, live, ib_connected, connected,
                   backend_orders, managerVars>>

\* Order.action, Order.order_type and Order.limit_price (NoPrice: None, the
\* default of place_option_order; 0: Decimal("0"); else cents).
Actions == {"BUY", "SELL"}
OrderTypes == {"LIMIT", "MARKET"}
LimitPrices == {NoPrice, 0, 150}

\* PortfolioManager.place_option_order: the Order is built from the arguments
\* as they are ("order_type: str = 'LIMIT', limit_price = None"); nothing is
\* validated.
place_option_order(action, order_type, price) ==
    [action |-> action, order_type |-> order_type, limit_price |-> price]

\* "if order.order_type == 'LIMIT' and order.limit_price"
priced_limit(order) ==
    order.order_type = "LIMIT" /\ order.limit_price \notin {NoPrice, 0}

\* SchwabBroker._convert_to_schwab_order: create_limit_order when the test
\* holds, "else:  # MARKET" create_market_order.
schwab_order_kind(order) == IF priced_limit(order) THEN "limit" ELSE "market"

\* IBKRBroker.place_order: "ib_order.orderType = order.order_type", lmtPrice
\* set only when the test holds.
ibkr_order_kind(order) ==
    IF priced_limit(order) THEN "limit"
    ELSE IF order.order_type = "LIMIT" THEN "limit_unpriced" ELSE "market"

\* _convert_to_schwab_order with a sale mapped to the opening instruction.
schwab_instruction_sell_to_open(action) ==
    IF action = "BUY" THEN "BUY_TO_OPEN" ELSE "SELL_TO_OPEN"

\* SchwabBroker._convert_to_schwab_order: "if order.action == 'BUY':
\* instruction = 'BUY_TO_OPEN' else: instruction = 'SELL_TO_CLOSE'".
schwab_instruction(action) ==
    IF action = "BUY" THEN "BUY_TO_OPEN" ELSE "SELL_TO_CLOSE"

\* The record of a place_order call that ended before anything was built for
\* the backend.
Received(order, outcome) ==
    [Call("place_order", outcome) EXCEPT
        !.action = order.action, !.order_type = order.order_type,
        !.limit_price = order.limit_price]

\* The record of a place_order call that sent the converted order.
Submitted(order, outcome) ==
    [Received(order, outcome) EXCEPT
        !.submitted_as = IF adapter = "schwab" THEN schwab_order_kind(order)
                         ELSE ibkr_order_kind(order),
        !.instruction = IF adapter = "schwab" THEN schwab_instruction(order.action)
                        ELSE order.action]

\* What the backend can answer to a submission: a rejection, an acceptance
\* with the order's id in the Location header, an acceptance without it.
Responses == {"rejected", "location", "no_location"}

\* SchwabBroker.place_order: the order id is the last segment of the Location
\* header; "if not order_id: order_id = 'unknown'"; an exception of the
\* backend is logged and re-raised.
schwab_place_order(order, response) ==
    IF client = 0
    THEN /\ ad' = Received(order, "NotConnected")
         /\ UNCHANGED backend_orders
    ELSE IF response = "rejected"
    THEN /\ ad' = Submitted(order, "raised")
         /\ UNCHANGED backend_orders
    ELSE /\ free_ids # {}
         /\ LET id == CHOOSE i \in free_ids : \A j \in free_ids : i <= j IN
            /\ backend_orders' = [backend_orders EXCEPT ![id] = "open"]
            /\ ad' = [Submitted(order, "returned") EXCEPT
                          !.ids = IF response = "location" THEN {id}
                                  ELSE {Unknown}]

\* IBKRBroker.place_order: qualifyContractsAsync, placeOrder, sleep, "return
\* str(trade.order.orderId)"; a rejection is not awaited.  On a closed
\* connection self.ib raises.
ibkr_place_order(order, response) ==
    IF ~ib_connected
    THEN /\ ad' = Received(order, "NotConnected")
         /\ UNCHANGED backend_orders
    ELSE IF response = "rejected"
    THEN /\ ad' = Received(order, "raised")
         /\ UNCHANGED backend_orders
    ELSE /\ free_ids # {}
         /\ LET id == CHOOSE i \in free_ids : \A j \in free_ids : i <= j IN
            /\ backend_orders' = [backend_orders EXCEPT ![id] = "open"]
            /\ ad' = [Submitted(order, "returned") EXCEPT !.ids = {id}]

\* PortfolioManager.place_option_order handing its Order to
\* BaseBroker.place_order.
broker_place_order ==
    /\ \E action \in Actions, order_type \in OrderTypes,
          price \in LimitPrices, response \in Responses :
           LET order == place_option_order(action, order_type, price) IN
           IF adapter = "schwab" THEN schwab_place_order(order, response)
           ELSE ibkr_place_order(order, response)
    /\ UNCHANGED <<adapter, client, created, live, ib_connected, connected,
                   managerVars>>

\* The backend fills a working order.
backend_fills ==
    /\ \E id \in open_orders :
           backend_orders' = [backend_orders EXCEPT ![id] = "filled"]
    /\ UNCHANGED <<adapter, client, created, live, ib_connected, connected,
                   ad, managerVars>>

\* SchwabBroker.cancel_order: no look at the open orders;
\* "client.cancel_order(order_id=int(order_id))" is sent for every id that is
\* a number, True if it did not raise, False if anything raised (int() of
\* "unknown" included).
schwab_cancel_order(order_id, backend_ok) ==
    IF client = 0
    THEN /\ ad' = [Call("cancel_order", "NotConnected") EXCEPT !.arg = order_id]
         /\ UNCHANGED backend_orders
    ELSE IF order_id = Unknown
    THEN /\ ad' = [Call("cancel_order", "false") EXCEPT !.arg = order_id]
         /\ UNCHANGED backend_orders
    ELSE IF order_id \in open_orders /\ backend_ok
    THEN /\ ad' = [Call("cancel_order", "true") EXCEPT
                       !.arg = order_id, !.sent = TRUE]
         /\ backend_orders' = [backend_orders EXCEPT ![order_id] = "cancelled"]
    ELSE /\ ad' = [Call("cancel_order", "false") EXCEPT
                       !.arg = order_id, !.sent = TRUE]
         /\ UNCHANGED backend_orders

\* IBKRBroker.cancel_order: the id is looked up in self.ib.trades(), every
\* trade of the session whatever its status; found: cancelOrder and True at
\* once; not found: False; an exception (cancelOrder on a closed connection)
\* gives False.
ibkr_cancel_order(order_id, backend_ok) ==
    IF order_id = Unknown \/ backend_orders[order_id] = "none"
    THEN /\ ad' = [Call("cancel_order", "false") EXCEPT !.arg = order_id]
         /\ UNCHANGED backend_orders
    ELSE IF ~ib_connected
    THEN /\ ad' = [Call("cancel_order", "false") EXCEPT !.arg = order_id]
         /\ UNCHANGED backend_orders
    ELSE /\ ad' = [Call("cancel_order", "true") EXCEPT
                       !.arg = order_id, !.sent = TRUE]
         /\ backend_orders' =
                IF order_id \in open_orders /\ backend_ok
                THEN [backend_orders EXCEPT ![order_id] = "cancelled"]
                ELSE backend_orders

\* BaseBroker.cancel_order
broker_cancel_order ==
    /\ \E order_id \in OrderIds \cup {Unknown}, backend_ok \in BOOLEAN :
           IF adapter = "schwab" THEN schwab_cancel_order(order_id, backend_ok)
           ELSE ibkr_cancel_order(order_id, backend_ok)
    /\ UNCHANGED <<adapter, client, created, live, ib_connected, connected,
                   managerVars>>

\* SchwabBroker.get_open_orders: the working orders are fetched and counted,
\* "orders = []" is returned as it is (parsing is a TODO); an exception
\* gives [] too.
schwab_get_open_orders(parsable) ==
    IF client = 0
    THEN ad' = [Call("get_open_orders", "NotConnected") EXCEPT
                   !.parsable = parsable]
    ELSE ad' = [Call("get_open_orders", "returned") EXCEPT
                   !.parsable = parsable, !.ids = {}]

\* IBKRBroker.get_open_orders: each of self.ib.openTrades() is converted
\* inside "try ... except Exception: continue".
ibkr_get_open_orders(parsable) ==
    ad' = [Call("get_open_orders", "returned") EXCEPT
              !.parsable = parsable, !.ids = open_orders \cap parsable]

\* BaseBroker.get_open_orders; which of the open orders can be converted is
\* the backend's doing.
broker_get_open_orders ==
    /\ \E parsable \in SUBSET open_orders :
           IF adapter = "schwab" THEN schwab_get_open_orders(parsable)
           ELSE ibkr_get_open_orders(parsable)
    /\ UNCHANGED <<adapter, client, created, live, ib_connected, connected,
                   backend_orders, managerVars>>

\* What the backend does with one symbol of a quote request: it delivers a
\* quote, stays silent for the whole wait, or the request fails.
Feeds == {"quote", "silent", "fails"}

\* SchwabBroker.get_market_data, one symbol: the record built from
\* quote_response.quote, or None when anything raised (a response without a
\* quote raises on the attribute).
schwab_entry(feed) == IF feed = "quote" THEN "record" ELSE "null"

\* IBKRBroker.get_market_data, one symbol: after sleepAsync(2) the record is
\* built from the ticker as it is ("... if ticker.last else None", volume 0);
\* None only when something raised.
ibkr_entry(feed) ==
    IF feed = "fails" THEN "null"
    ELSE IF feed = "silent" THEN "empty_record" ELSE "record"

\* IBKRBroker.get_market_data, the subscriptions opened by reqMktData: every
\* symbol that got as far as reqMktData.  A failing symbol did so unless it
\* failed before the request (qualifyContractsAsync raising).
ibkr_opened(feed, before_request) ==
    {s \in DOMAIN feed : feed[s] # "fails" \/ s \notin before_request}

\* IBKRBroker.get_market_data, the subscriptions closed by cancelMktData: the
\* call is the last statement of the try block, so it is reached only when
\* nothing raised for the symbol.
ibkr_cancelled(feed, before_request) ==
    {s \in ibkr_opened(feed, before_request) : feed[s] # "fails"}

\* BaseBroker.get_market_data.  SchwabBroker asks for one quote per symbol and
\* opens no subscription.
broker_get_market_data ==
    /\ \E requested \in SUBSET Symbols : \E feed \in [requested -> Feeds] :
       \E before_request \in SUBSET {s \in requested : feed[s] = "fails"} :
           IF adapter = "schwab" /\ client = 0
           THEN ad' = [Call("get_market_data", "NotConnected") EXCEPT
                          !.feed = feed]
           ELSE ad' = [Call("get_market_data", "returned") EXCEPT
                          !.feed = feed,
                          !.entries = [s \in requested |->
                                          IF adapter = "schwab"
                                          THEN schwab_entry(feed[s])
                                          ELSE ibkr_entry(feed[s])],
                          !.opened = IF adapter = "schwab" THEN {}
                                     ELSE ibkr_opened(feed, before_request),
                          !.cancelled = IF adapter = "schwab" THEN {}
                                        ELSE ibkr_cancelled(feed, before_request)]
    /\ UNCHANGED <<adapter, client, created, live, ib_connected, connected,
                   backend_orders, managerVars>>

\* A PortfolioManager on which nothing has been called.
ManagerAtRest ==
    /\ now = 0
    /\ cache_time = NoTime
    /\ positions_cache = <<>>
    /\ account_info_cache = EmptyAccount
    /\ pos_at = NoTime
    /\ acct_at = NoTime
    /\ broker_positions = PositionList([s \in Symbols |-> 0])
    /\ broker_account = MkAccount(15000)
    /\ green = FALSE
    /\ last = NoOp
    /\ prev = NoOp
    /\ pc = "idle"
    /\ dry_run = FALSE
    /\ in_run = FALSE
    /\ idx = 1
    /\ buying_power = -1
    /\ net_liq = 0
    /\ seen = [s \in Symbols |-> NotSeen]
    /\ orders = <<>>
    /\ result = "none"

\* The adapter object after construction: either implementation, the IB
\* object handed to IBKRBroker connected or not; the manager at rest.
InitAdapter ==
    /\ ManagerAtRest
    /\ adapter \in Adapters
    /\ ib_connected \in IF adapter = "ibkr" THEN BOOLEAN ELSE {FALSE}
    /\ AdapterConstructed
    /\ NothingConverted

NextAdapter ==
    \/ broker_connect
    \/ broker_disconnect
    \/ broker_get_account_info
    \/ broker_get_positions
    \/ broker_place_order
    \/ backend_fills
    \/ broker_cancel_order
    \/ broker_get_open_orders
    \/ broker_get_market_data

SpecAdapter == InitAdapter /\ [][NextAdapter]_vars

\* --------------------------------------------------- order conversion
\* SchwabBroker._convert_to_schwab_order builds the option symbol of the
\* Order's Contract.
convert_to_schwab_order ==
    /\ option_symbol = NoSymbol
    /\ option_symbol' = option_symbol_of(contract)
    /\ UNCHANGED <<contract, readers, run, now, cacheVars, broker_positions,
                   broker_account, green, adapterVars, last, prev, cycleVars>>

\* One Order, of any Contract, about to be converted by the Schwab adapter.
InitConvert ==
    /\ ManagerAtRest
    /\ adapter = "schwab"
    /\ ib_connected = FALSE
    /\ AdapterConstructed
    /\ contract \in Contracts
    /\ option_symbol = NoSymbol
    /\ readers = [r \in Readers |-> NoRead]
    /\ run = NoRun

NextConvert == convert_to_schwab_order

SpecConvert == InitConvert /\ [][NextConvert]_vars

\* ------------------------------------------------- concurrent cache reads
\* get_account_info / get_positions up to the await: the cache test, and on a
\* miss the adapter call is issued and the coroutine is suspended at
\* "await self.broker.get_...()"; nothing is recorded about the fetch.
reader_call(r) ==
    /\ readers[r].at = "idle"
    /\ \E op \in {"get_account_info", "get_positions"}, force_refresh \in BOOLEAN :
           LET hit == IF op = "get_positions"
                      THEN positions_cache_hit(force_refresh)
                      ELSE is_cache_valid
           IN readers' = [readers EXCEPT
                             ![r] = [op |-> op,
                                     at |-> IF hit THEN "returned" ELSE "awaiting"]]
    /\ UNCHANGED <<contract, option_symbol, run, now, cacheVars, broker_positions,
                   broker_account, green, adapterVars, last, prev, cycleVars>>

\* The adapter call of a suspended read completes: the snapshot goes into its
\* cache with "_cache_time = datetime.now()", or the exception leaves the
\* cache as it was.
reader_resume(r) ==
    /\ readers[r].at = "awaiting"
    /\ \E ok \in BOOLEAN :
           IF ~ok
           THEN /\ readers' = [readers EXCEPT ![r].at = "raised"]
                /\ UNCHANGED cacheVars
           ELSE /\ readers' = [readers EXCEPT ![r].at = "returned"]
                /\ cache_time' = now
                /\ IF readers[r].op = "get_positions"
                   THEN /\ positions_cache' = broker_positions
                        /\ pos_at' = now
                        /\ UNCHANGED <<account_info_cache, acct_at>>
                   ELSE /\ account_info_cache' = broker_account
                        /\ acct_at' = now
                        /\ UNCHANGED <<positions_cache, pos_at>>
    /\ UNCHANGED <<contract, option_symbol, run, now, broker_positions,
                   broker_account, green, adapterVars, last, prev, cycleVars>>

\* The caller of a finished read goes on; it may read again.
reader_done(r) ==
    /\ readers[r].at \in {"returned", "raised"}
    /\ readers' = [readers EXCEPT ![r] = NoRead]
    /\ UNCHANGED <<contract, option_symbol, run, now, cacheVars, broker_positions,
                   broker_account, green, adapterVars, last, prev, cycleVars>>

\* One PortfolioManager on the Schwab adapter, shared by the coroutines.
InitReaders ==
    /\ ManagerAtRest
    /\ adapter = "schwab"
    /\ ib_connected = FALSE
    /\ AdapterConstructed
    /\ NothingConverted

NextReaders ==
    \/ Tick
    \/ \E r \in Readers : reader_call(r)
    \/ \E r \in Readers : reader_resume(r)
    \/ \E r \in Readers : reader_done(r)

SpecReaders == InitReaders /\ [][NextReaders]_vars

\* ------------------------------------------------------------ start_schwab
\* _initialize_schwab after connect(): "if not connected: raise
\* RuntimeError(...)"; initialize() lets it through.
initialize_outcome_ignores_connect(step) == "initialized"

initialize_outcome(step) ==
    IF step = "verified" THEN "initialized" ELSE "raised"

\* "await portfolio_manager.initialize()": the SchwabBroker is built and
\* connect() is awaited.
start_schwab_initialize ==
    /\ run.at = "new"
    /\ \E step \in ConnectSteps :
           /\ schwab_connect(step)
           /\ run' = [run EXCEPT !.at = initialize_outcome(step),
                                 !.connect = step]
    /\ UNCHANGED <<adapter, ib_connected, backend_orders, now, cacheVars,
                   broker_positions, broker_account, green, last, prev,
                   cycleVars, contract, option_symbol, readers>>

\* "await portfolio_manager.manage()", reached when initialize() returned.
start_schwab_manage ==
    /\ run.at = "initialized"
    /\ result = "none"
    /\ \E dr \in BOOLEAN : start(dr)

\* The steps of the cycle that manage() runs.
start_schwab_cycle ==
    /\ run.at = "initialized"
    /\ \/ display_account
       \/ display_positions
       \/ write_account
       \/ write_positions
       \/ calculate_target_positions
       \/ should_write_puts_allocation
       \/ should_write_puts_price
       \/ write_puts_for_symbol
       \/ check_and_roll_positions

\* "except Exception as e: logger.error(...); raise", for what initialize()
\* or manage() raised.
start_schwab_except ==
    /\ \/ run.at = "raised"
       \/ run.at = "initialized" /\ pc = "idle" /\ result = "raised"
    /\ run' = [run EXCEPT !.at = "except", !.error = TRUE]
    /\ UNCHANGED <<adapterVars, now, cacheVars, broker_positions,
                   broker_account, green, last, prev, cycleVars, contract,
                   option_symbol, readers>>

\* "finally: await portfolio_manager.disconnect()": "if self.broker: await
\* self.broker.disconnect()"; the exception, if any, goes on to the caller.
start_schwab_finally ==
    /\ \/ run.at = "except"
       \/ run.at = "initialized" /\ pc = "idle" /\ result = "complete"
    /\ schwab_disconnect
    /\ connected' = FALSE
    /\ ad' = Call("disconnect", "returned")
    /\ run' = [run EXCEPT !.at = "ended"]
    /\ UNCHANGED <<adapter, backend_orders, now, cacheVars, broker_positions,
                   broker_account, green, last, prev, cycleVars, contract,
                   option_symbol, readers>>

\* start_schwab(config, dry_run) is called: a PortfolioManager on which
\* nothing has been called, against any account and market.
InitStart ==
    /\ now = 0
    /\ cache_time = NoTime
    /\ positions_cache = <<>>
    /\ account_info_cache = EmptyAccount
    /\ pos_at = NoTime
    /\ acct_at = NoTime
    /\ broker_positions \in BrokerPositionLists
    /\ broker_account \in BrokerAccounts
    /\ green \in BOOLEAN
    /\ adapter = "schwab"
    /\ ib_connected = FALSE
    /\ AdapterConstructed
    /\ NothingConverted
    /\ last = NoOp
    /\ prev = NoOp
    /\ pc = "idle"
    /\ dry_run = FALSE
    /\ in_run = FALSE
    /\ idx = 1
    /\ buying_power = -1
    /\ net_liq = 0
    /\ seen = [s \in Symbols |-> NotSeen]
    /\ orders = <<>>
    /\ result = "none"

NextStart ==
    \/ start_schwab_initialize
    \/ start_schwab_manage
    \/ start_schwab_cycle
    \/ start_schwab_except
    \/ start_schwab_finally

\* The event loop runs the coroutine to its end: every await of the run
\* completes or raises.
SpecStart == InitStart /\ [][NextStart]_vars /\ WF_vars(NextStart)

\* ================================================================ claims
\* The cache states of the design: FRESH when a snapshot exists and is
\* younger than the freshness window, STALE otherwise.
Fresh(ctime, t) == ctime # NoTime /\ t - ctime < 30

NonForcedReads == {"get_account_info", "get_positions"}
ReadOps == NonForcedReads \cup {"get_positions_forced"}
ForcedRefreshOps == {"get_positions_forced", "invalidate_cache"}

\* The orders of this cycle for one symbol.
OrdersFor(symbol) == {i \in 1..Len(orders) : orders[i].symbol = symbol}

\* C1: whenever the cache is valid, the cached positions and the cached
\* account info were fetched in the same refresh (the one that set the cache
\* time).
C1_CacheNeverPartial ==
    is_cache_valid => pos_at = cache_time /\ acct_at = cache_time

\* C2: no order of a cycle is for a symbol in which the broker holds a
\* position worth at least weight * net_liquidation.
C2_NoOrderAtOrAboveTarget ==
    \A i \in 1..Len(orders) :
        LET mv == current_value(broker_positions, orders[i].symbol)
        IN ~(mv > 0 /\
             mv * 100 >= weight(orders[i].symbol) * broker_account.net_liquidation)

\* C3: after a forced refresh whose adapter fetch failed the cache is STALE,
\* and the read that follows it fetches again.
C3_FailedForcedRefreshLeavesStale ==
    /\ (last.op = "get_positions_forced" /\ last.raised)
           => ~Fresh(last.snapshot, last.at)
    /\ (prev.op = "get_positions_forced" /\ prev.raised
            /\ last.op \in NonForcedReads)
           => last.fetched = 1

C6_BoundedStaleness ==
    /\ (last.op = "get_positions" /\ last.fetched = 0)
           => pos_at # NoTime /\ last.at - pos_at <= 30
    /\ (last.op = "get_account_info" /\ last.fetched = 0)
           => acct_at # NoTime /\ last.at - acct_at <= 30

\* C7: a run started with dry_run = TRUE hands no order to the adapter.
C7_DryRunPlacesNoOrders ==
    (in_run /\ dry_run) => orders = <<>>

\* The skip conditions of the write decision, on what it observed for the
\* symbol: puts switched off, current value at or above the target, no quote
\* (at the decision or when writing), one contract beyond the buying power.
SkipCondition(symbol) ==
    \/ ~green
    \/ seen[symbol].cur * 100 >= net_liq * weight(symbol)
    \/ seen[symbol].q1 = 0
    \/ seen[symbol].q1 * 100 > buying_power * 100
    \/ seen[symbol].q2 = 0

\* C8: a symbol the pass has evaluated has exactly one order if no skip
\* condition triggered and none otherwise; every order is SELL PUT, one
\* contract, LIMIT with a limit price.
C8_OneOrderUnlessSkipped ==
    /\ \A s \in Symbols :
           Cardinality(OrdersFor(s)) =
               IF seen[s].state = "evaluated" /\ ~SkipCondition(s) THEN 1 ELSE 0
    /\ \A i \in 1..Len(orders) :
           /\ orders[i].action = "SELL" /\ orders[i].right = "PUT"
           /\ orders[i].quantity = 1 /\ orders[i].order_type = "LIMIT"
           /\ orders[i].limit_price # NoPrice /\ orders[i].limit_price > 0

\* A completed cycle with one symbol written and another skipped.
C8_Witness ==
    /\ result = "complete"
    /\ \E s, t \in Symbols :
           /\ Cardinality(OrdersFor(s)) = 1 /\ ~SkipCondition(s)
           /\ Cardinality(OrdersFor(t)) = 0 /\ SkipCondition(t)
           /\ seen[t].state = "evaluated"

\* C9: no order is emitted for a symbol whose quoted price times 100 exceeds
\* the buying power of the pass.
C9_BuyingPowerGate ==
    \A s \in Symbols :
        (seen[s].q1 > 0 /\ seen[s].q1 * 100 > buying_power * 100)
            => OrdersFor(s) = {}

\* buying_power = 1000 and price = 150 on a symbol far below its target: the
\* symbol is evaluated and nothing is emitted.
C9_Witness ==
    \E s \in Symbols :
        /\ seen[s].state = "evaluated" /\ seen[s].cur = 0
        /\ seen[s].q1 = 15000 /\ buying_power = 1000
        /\ OrdersFor(s) = {}

\* C10: every emitted strike is a multiple of 0.5 within 0.25 of
\* price * (1 - delta).
C10_StrikeHalfPoint ==
    \A i \in 1..Len(orders) :
        LET exact == orders[i].price * (100 - delta(orders[i].symbol))
            d == orders[i].strike * 1000 - exact
        IN /\ orders[i].strike % 5 = 0
           /\ d <= 2500 /\ -d <= 2500

\* The place of a symbol in the write loop.
IndexOf(symbol) == CHOOSE i \in 1..Len(symbols_config) : symbols_config[i] = symbol

\* The write loop has left the symbol behind.
MovedPast(symbol) ==
    \/ idx > IndexOf(symbol)
    \/ pc = "roll"
    \/ pc = "idle" /\ result = "complete"
    \/ pc = "idle" /\ result = "raised" /\ last.raised

NoQuoteKinds == {"null", "unpriced"}

\* C11: a symbol whose market-data entry was null, or had neither last nor
\* bid, gets no order; the pass has gone on to the next symbol (or the roll
\* pass), and if the cycle raised it was a cache read that raised.
C11_NoQuoteSkips ==
    \A s \in Symbols :
        (seen[s].k1 \in NoQuoteKinds \/ seen[s].k2 \in NoQuoteKinds)
            => /\ OrdersFor(s) = {}
               /\ seen[s].state = "evaluated"
               /\ MovedPast(s)

\* The first symbol had a null entry, the second was evaluated after it and
\* the cycle completed.
C11_Witness ==
    /\ result = "complete"
    /\ seen[symbols_config[1]].k1 = "null"
    /\ OrdersFor(symbols_config[1]) = {}
    /\ Cardinality(OrdersFor(symbols_config[2])) = 1

\* Processing the symbol failed: a quote lookup gave a null entry, or the
\* backend rejected the order submitted for it.
SymbolFailed(symbol) ==
    \/ seen[symbol].k1 = "null"
    \/ seen[symbol].k2 = "null"
    \/ \E i \in 1..Len(orders) :
           orders[i].symbol = symbol /\ ~orders[i].accepted

AllEvaluated == \A t \in Symbols : seen[t].state = "evaluated"

\* C12: when processing a symbol failed (null quote entry or rejected
\* submission), the write loop has gone on past it, the roll pass is reached
\* only with every configured symbol evaluated, and the cycle raises only if a
\* cache read raised.
C12_SymbolFailureIsolated ==
    \A s \in Symbols :
        SymbolFailed(s)
            => /\ MovedPast(s)
               /\ pc = "roll" => AllEvaluated
               /\ result = "complete" => AllEvaluated
               /\ result = "raised" => last.raised

\* The first symbol's submission was rejected; the second symbol was evaluated
\* after it and got its order, the roll pass ran and the cycle completed.
C12_Witness ==
    /\ result = "complete"
    /\ \E i \in 1..Len(orders) :
           orders[i].symbol = symbols_config[1] /\ ~orders[i].accepted
    /\ \E i \in 1..Len(orders) :
           orders[i].symbol = symbols_config[2] /\ orders[i].accepted
    /\ AllEvaluated

\* C13: a cache read that raises inside a cycle ends the cycle at once with the
\* exception re-raised: no step of the cycle is pending after it, and no
\* symbol whose evaluation had not finished before the read has an order.
C13_FetchFailureAborts ==
    (last.raised /\ result # "none")
        => /\ pc = "idle"
           /\ result = "raised"
           /\ \A s \in Symbols :
                  seen[s].state # "evaluated" => OrdersFor(s) = {}

\* The cache read of the second symbol's decision raised after the first
\* symbol's order had been submitted.
C13_Witness ==
    /\ result = "raised"
    /\ last.raised
    /\ last.op = "get_positions"
    /\ Len(orders) = 1
    /\ seen[symbols_config[2]].state = "pending"

\* The calls of the adapter interface that need a session.
DataOps == {"get_account_info", "get_positions", "place_order",
            "cancel_order", "get_market_data"}

\* C14: a data call made while no connect() has returned true (none yet,
\* only connect() calls that returned false, or a disconnect() since) fails
\* with NotConnected.
C14_NotConnectedSurfaced ==
    (ad.op \in DataOps /\ ~ad.was_connected) => ad.outcome = "NotConnected"

\* C15: connect() never raises, it returns true or false; called on an
\* adapter that is already connected it returns true and leaves exactly one
\* live session.
C15_ConnectIdempotent ==
    ad.op = "connect"
        => /\ ad.outcome \in {"true", "false"}
           /\ (ad.was_connected /\ ad.had_session)
                  => (ad.outcome = "true" /\ live_sessions = 1)

\* C16: disconnect() returns without raising in every state.  On an adapter
\* that holds no session it changes nothing; on one that holds a session it
\* releases that session, and the adapter holds none afterwards (so that a
\* second disconnect() changes nothing).
C16_DisconnectSafe ==
    ad.op = "disconnect"
        => /\ ad.outcome = "returned"
           /\ ~has_session
           /\ live_sessions = IF ad.had_session THEN ad.live_before - 1
                              ELSE ad.live_before

\* A disconnect() released the session of a connected adapter.
C16_Witness ==
    /\ ad.op = "disconnect"
    /\ ad.had_session
    /\ ad.was_connected
    /\ ad.live_before = 1
    /\ live_sessions = 0

\* C17: place_order either fails (NotConnected, or the backend's rejection
\* raised) or returns the id the backend assigned to the order; it never
\* returns a placeholder.
C17_PlaceOrderIdOrError ==
    ad.op = "place_order"
        => \/ ad.outcome \in {"raised", "NotConnected"}
           \/ /\ ad.outcome = "returned"
              /\ \E id \in OrderIds :
                     ad.ids = {id} /\ backend_orders[id] # "none"

\* C18: on a connected adapter, cancel_order returns true only
\* for an order that was open and is now cancelled; for an id that was not
\* among the open orders it returns false, without raising and without a
\* cancel sent to the backend.
C18_CancelOutcomes ==
    (ad.op = "cancel_order" /\ ad.was_connected /\ ad.had_session)
        => /\ ad.outcome = "true"
                  => (ad.arg \in ad.open_before
                         /\ backend_orders[ad.arg] = "cancelled")
           /\ ad.arg \notin ad.open_before
                  => (ad.outcome = "false" /\ ~ad.sent)

\* C19: on a connected adapter, get_open_orders returns without
\* raising, and what it returns is exactly the open orders that could be
\* converted.
C19_OpenOrdersParsedSubset ==
    (ad.op = "get_open_orders" /\ ad.was_connected /\ ad.had_session)
        => /\ ad.outcome = "returned"
           /\ ad.ids = ad.parsable

\* C20: on a connected adapter, get_market_data returns an entry
\* for every requested symbol, and the entry of a symbol whose quote failed
\* or did not arrive within the wait is null.
C20_NullEntryPerSymbol ==
    (ad.op = "get_market_data" /\ ad.was_connected /\ ad.had_session)
        => /\ ad.outcome = "returned"
           /\ DOMAIN ad.entries = DOMAIN ad.feed
           /\ \A s \in DOMAIN ad.feed :
                  ad.feed[s] # "quote" => ad.entries[s] = "null"

C22_LimitCarriesPrice ==
    ad.op = "place_order"
        => /\ ~(ad.order_type = "LIMIT" /\ ad.limit_price = -1)
           /\ (ad.order_type = "LIMIT" /\ ad.submitted_as # "none")
                  => ad.submitted_as = "limit"

\* C23: targets are computed, and the write decision is evaluated, only from
\* an account snapshot that has net_liquidation and buying_power: an absent
\* field is never read as 0.
C23_AbsentFieldNotZero ==
    /\ (\E s \in Symbols : seen[s].state = "evaluated")
           => {"net_liquidation", "buying_power"} \subseteq broker_account.keys
    /\ (result = "targets" /\ acct_at # -1)
           => "net_liquidation" \in account_info_cache.keys

\* The contract read back from an option symbol SYMBOL_MMDDYY[C|P]STRIKE:
\* the strike in thousandths of a dollar, the date from its six digits (years
\* of this century), the right from its letter.
DerivedStrikeThousandths(sym) == sym.strike_str
DerivedExpiration(sym) ==
    [year |-> 2000 + (sym.exp_str % 100),
     month |-> sym.exp_str \div 10000,
     day |-> (sym.exp_str \div 100) % 100]
DerivedRight(sym) == IF sym.right = "C" THEN "CALL" ELSE "PUT"

\* C24: the strike, expiration and right read back from the option symbol
\* built from a Contract are the Contract's own (the strike to the cent), and
\* Contracts that differ get different symbols.
C24_IdentifierRoundTrip ==
    /\ option_symbol # NoSymbol
           => /\ DerivedStrikeThousandths(option_symbol) = contract.strike * 10
              /\ DerivedExpiration(option_symbol) = contract.expiration
              /\ DerivedRight(option_symbol) = contract.right
    /\ \A c1 \in Contracts, c2 \in Contracts :
           option_symbol_of(c1) = option_symbol_of(c2) => c1 = c2

\* The steps of a cycle that come before the write loop: the reads of the
\* account and of the positions.
ReadSteps == {"display_account", "display_positions", "write_account",
              "write_positions", "write_targets"}

\* C25: in a cycle the account and the positions are read before any symbol
\* is decided (the account's buying power is in hand, and each order's symbol
\* has its holding read from the positions), the roll pass starts only when
\* the write decision has been evaluated for every configured symbol, and a
\* completed cycle has done both.
C25_CycleOrder ==
    /\ \A s \in Symbols :
           seen[s] # NotSeen => (pc \notin ReadSteps /\ buying_power >= 0)
    /\ \A s \in Symbols : OrdersFor(s) # {} => seen[s].cur >= 0
    /\ pc \in ReadSteps => orders = <<>>
    /\ pc = "roll" => AllEvaluated
    /\ result = "complete" => (AllEvaluated /\ pc = "idle")

\* The roll pass has been reached after both symbols got their order.
C25_Witness ==
    /\ pc = "roll"
    /\ Len(orders) = 2
    /\ \A i \in 1..Len(orders) : orders[i].accepted
    /\ AllEvaluated

\* C26: at most one cache fetch is in flight: no two coroutines are suspended
\* at the adapter at the same time.
C26_SingleFlight ==
    \A r1 \in Readers, r2 \in Readers :
        (readers[r1].at = "awaiting" /\ readers[r2].at = "awaiting") => r1 = r2

\* C27: when get_market_data returns on a connected IBKR adapter, every
\* market-data subscription it opened has been cancelled, for the symbols
\* that succeeded and for the symbols that failed alike.
C27_SubscriptionsCancelled ==
    (ad.op = "get_market_data" /\ ad.outcome = "returned" /\ ad.was_connected)
        => ad.opened \subseteq ad.cancelled

\* What start_schwab does when connect() returned false.
ConnectRefused == run.connect \notin {"none", "verified"}

C28_AfterRefusal ==
    ConnectRefused
        => /\ run.at \in {"raised", "except", "ended"}
           /\ pc = "idle" /\ result = "none" /\ ~in_run
           /\ orders = <<>>
           /\ run.at = "ended" => run.error

C28_Released ==
    run.at = "ended" => (ad.op = "disconnect" /\ live = {} /\ client = 0)

\* C28: in start_schwab, when connect() returns false initialize() raises:
\* manage() is never executed and no order is submitted, the error reaches
\* the caller, and disconnect is still performed; every run that ends has
\* released the adapter's session, and a run whose connect() was refused
\* does end.
C28_FailedConnect ==
    /\ [](C28_AfterRefusal /\ C28_Released)
    /\ (ConnectRefused ~> run.at = "ended")

\* A refused connect() that had opened a session, after the finally block.
C28_Witness ==
    /\ run.at = "ended"
    /\ run.connect \in {"numbers_fail", "account_missing"}
    /\ ad.op = "disconnect" /\ ad.live_before > 0 /\ live = {}

\* The steps of check_and_write_puts after buying_power was read.
WritePassSteps == {"write_positions", "write_targets", "should_write",
                   "should_write_price", "write_puts"}

\* The buying power that the pass read at its start.
InitialBuyingPower == broker_account.buying_power

\* The symbols that the buying-power check of the pass let through, and
\* those it stopped.
C29_ChecksAgainstInitial ==
    \A s \in Symbols :
        /\ OrdersFor(s) # {}
               => ~insufficient_buying_power(seen[s].q1, InitialBuyingPower)
        /\ (seen[s].state = "evaluated" /\ seen[s].q1 > 0
                /\ seen[s].k2 = NotSeen.k2 /\ OrdersFor(s) = {})
               => insufficient_buying_power(seen[s].q1, InitialBuyingPower)

\* A step taken inside the pass leaves its buying power as it was.
C29_LeftUnchanged ==
    (pc \in WritePassSteps) => (buying_power' = buying_power)

\* C29: within one check_and_write_puts pass the buying power read at the
\* start is left unchanged by every later step, the emission of orders
\* included, and every symbol's check compares price * 100 against that
\* initial value, however many orders were emitted before it.
C29_BuyingPowerFixed ==
    /\ [][C29_LeftUnchanged]_vars
    /\ [](pc \in WritePassSteps \cup {"roll"}
              => (buying_power = InitialBuyingPower
                     /\ C29_ChecksAgainstInitial))

\* Every symbol of the pass got an accepted order of 15000 against a buying
\* power of 15000: the later symbol passed the check after the earlier order.
C29_Witness ==
    /\ pc = "roll"
    /\ buying_power = 15000
    /\ Len(orders) = Len(symbols_config)
    /\ \A i \in 1..Len(orders) : orders[i].accepted
    /\ \A s \in Symbols : seen[s].q1 = 15000

\* C30: every order that the Schwab adapter submits carries the instruction
\* BUY_TO_OPEN when its action is BUY and SELL_TO_CLOSE for any other action;
\* the put of the write decision, a SELL, is submitted as SELL_TO_CLOSE.
C30_SchwabInstruction ==
    /\ (adapter = "schwab" /\ ad.op = "place_order" /\ ad.submitted_as # "none")
           => ad.instruction = IF ad.action = "BUY" THEN "BUY_TO_OPEN"
                               ELSE "SELL_TO_CLOSE"
    /\ \A s \in Symbols, p \in Prices, accepted \in BOOLEAN :
           schwab_instruction(put_order(s, p, accepted).action) = "SELL_TO_CLOSE"

\* A SELL accepted by the Schwab backend while an earlier order is on it.
C30_Witness ==
    /\ adapter = "schwab" /\ ad.op = "place_order" /\ ad.outcome = "returned"
    /\ ad.action = "SELL" /\ ad.instruction = "SELL_TO_CLOSE"
    /\ \E id \in OrderIds : backend_orders[id] # "none" /\ id \notin ad.ids

====
